---- MODULE Spec2Model ----
(***************************************************************************)
(* A model of the backtesting core of CryptoTAEngine:                      *)
(*   - BacktestEngine.run_backtest and optimize_parameters                 *)
(*     (app/backtesting/engine.py),                                        *)
(*   - BacktestCache.generate_cache_key and the Redis-backed cache         *)
(*     (app/utils/cache.py),                                               *)
(*   - the job handlers submit_backtest, run_backtest_async,               *)
(*     optimize_strategy, run_optimization_async (app/api/routes/          *)
(*     backtest.py) and the Celery task run_backtest_task                  *)
(*     (app/backtesting/tasks.py).                                         *)
(*                                                                         *)
(* A parameter dict is a sequence of <<key, value>> pairs (a dict keeps    *)
(* its insertion order).  A result dict is a record whose field `keys` is  *)
(* the set of keys the dict holds: d['k'] raises KeyError exactly when     *)
(* "k" \notin d.keys, and the record's other fields are meaningful only    *)
(* for the keys held.  Strings are TLA+ strings, f-strings are \o.         *)
(*                                                                         *)
(* The module holds several specifications, one per part of the program;   *)
(* each leaves the variables of the other parts at their idle values.      *)
(***************************************************************************)
EXTENDS Integers, Sequences, FiniteSets, TLC

(***************************************************************************)
(* Bounds of the model.                                                    *)
(***************************************************************************)
MaxListLen == 2     \* longest value list of a parameter grid
MaxValue   == 2     \* parameter values are 1..MaxValue
MaxCombos  == 4     \* largest grid (number of combinations) explored
MaxMetric  == 1     \* metric values are 0..MaxMetric
MaxCpu     == 2     \* mp.cpu_count() is 1..MaxCpu
MaxDay     == 3     \* timestamps are midnight of day 1..MaxDay
MaxJobs    == 2     \* jobs (backtests, Celery tasks, optimizations) accepted
MaxBars    == 3     \* bars in a series
MaxWarmup  == 1     \* bars before the strategy's indicators have their minimum period
MaxPoints  == 3     \* portfolio values handed to calculate_all
MaxTrades  == 3     \* trades handed to calculate_all
MaxRows    == 4     \* rows of the frame handed to walk_forward_analysis
MaxPeriod  == 2     \* train_period and test_period

\* settings.MAX_PARALLEL_BACKTESTS
MAX_PARALLEL_BACKTESTS == 10

VARIABLES
    \* ---- BacktestEngine.run_backtest, one call ----
    run_pc,            \* "idle" | "returned"
    run_args,          \* the call's arguments (data, parameters, what the simulation does)
    run_result,        \* the dict the call returned
    \* ---- BacktestEngine.optimize_parameters, one call ----
    opt_pc,            \* "idle" | "collecting" | "interrupted" | "done"
    parameter_grid,    \* the grid: one value list per key of GridKeys, in key order
    opt_data,          \* the data frame handed to every run
    n_workers,         \* self.n_workers
    param_combinations,\* the list _generate_param_combinations returned
    futures,           \* the futures dict: future id -> index of its params in param_combinations
    queued,            \* futures no worker has started yet, in submission order
    running,           \* futures a worker is running
    results,           \* the results list, in completion order
    evaluated,         \* ghost: how many runs each combination has had
    opt_return,        \* what the call returned or raised
    \* ---- BacktestCache.generate_cache_key, two calls ----
    key_pc,            \* "idle" | "returned"
    key_args,          \* the two calls' arguments
    key_out,           \* the two keys returned
    \* ---- the job handlers, the BacktestRun table and the Redis cache ----
    jobs,              \* the background tasks and Celery tasks accepted, in order
    db_runs,           \* the BacktestRun table as committed: run id -> row
    cache,             \* the Redis store: entries [key, status, job_id]
    redis_up,          \* whether Redis answers
    worker_client,     \* whether the Celery worker's RedisCache.client is set
    response,          \* the last HTTP response
    computed,          \* ghost: simulations run per fingerprint since its entry last expired
    \* ---- a simulation: the strategy instances cerebro.run drives over the bars ----
    data_bars,         \* the bar series handed to the runs, as far as it has been read
    instances,         \* run -> the strategy instance with its broker
    \* ---- PerformanceMetrics, one call of calculate_all ----
    met_pc,            \* "idle" | "returned"
    met_args,          \* the call's arguments
    met_out,           \* the metrics dict returned
    \* ---- BacktestEngine.walk_forward_analysis, one call ----
    wf_pc,             \* "idle" | "windows" | "backtests" | "returned"
    wf_args,           \* len(data), train_period and test_period
    start_idx,         \* start_idx of _create_windows
    windows,           \* the windows list: (train_data, test_data) as row positions
    wf_results         \* the status of each window's run, in order

runVars == <<run_pc, run_args, run_result>>
optVars == <<opt_pc, parameter_grid, opt_data, n_workers, param_combinations,
             futures, queued, running, results, evaluated, opt_return>>
keyVars == <<key_pc, key_args, key_out>>
jobVars == <<jobs, db_runs, cache, redis_up, worker_client, response, computed>>
simVars == <<data_bars, instances>>
metVars == <<met_pc, met_args, met_out>>
wfVars == <<wf_pc, wf_args, start_idx, windows, wf_results>>
vars == <<runVars, optVars, keyVars, jobVars, simVars, metVars, wfVars>>

(***************************************************************************)
(* Helpers.                                                                *)
(***************************************************************************)
Range(s) == {s[i] : i \in DOMAIN s}

Abs(x) == IF x < 0 THEN -x ELSE x
Sign(x) == IF x < 0 THEN -1 ELSE IF x > 0 THEN 1 ELSE 0

Min(a, b) == IF a <= b THEN a ELSE b

RECURSIVE ConcatAll(_)
ConcatAll(ss) == IF ss = <<>> THEN <<>> ELSE Head(ss) \o ConcatAll(Tail(ss))

(***************************************************************************)
(* Inputs.                                                                 *)
(***************************************************************************)
\* Parameter names, in the order a grid declares them.
GridKeys == <<"p", "q">>

\* A data frame, as far as _prepare_data_feed looks at it: whether the five
\* OHLCV columns are all there, and what its index is ("datetime": a
\* DatetimeIndex; "timestamp"/"date": no DatetimeIndex but such a column;
\* "none": neither).
DataFrames == [has_cols : BOOLEAN, index : {"datetime", "timestamp", "date", "none"}]

\* Messages an exception raised inside the simulation may carry: str(e) of an
\* exception raised without arguments (raise StrategyError(), a failed assert) is "".
ErrMsgs == {"", "division by zero"}

\* What cerebro.run() and the metrics calculation do for one run: they finish
\* with a value of the requested metric, or raise an Exception with a message.
Sims == [kind : {"ok"}, metric : 0..MaxMetric, msg : {""}]
        \cup [kind : {"raise"}, metric : {0}, msg : ErrMsgs]

(***************************************************************************)
(* BacktestEngine._prepare_data_feed: whether it raises ValueError, and    *)
(* with what message.                                                      *)
(***************************************************************************)
_prepare_data_feed(data) ==
    IF ~data.has_cols
    THEN [raised |-> TRUE, msg |-> "Missing required columns"]
    ELSE IF data.index = "none"
    THEN [raised |-> TRUE,
          msg |-> "Data must have datetime index or timestamp/date column"]
    ELSE [raised |-> FALSE, msg |-> ""]

(***************************************************************************)
(* BacktestEngine.run_backtest: the dict it returns.  Every Exception      *)
(* raised in the try block ends in the except clause, which returns the    *)
(* failed dict with 'error': str(e).                                       *)
(***************************************************************************)
FailedKeys == {"job_id", "status", "error", "execution_time"}
CompletedKeys == {"job_id", "strategy", "initial_capital", "final_capital",
                  "parameters", "metrics", "trades", "equity_curve", "plot_html",
                  "execution_time", "status"}

FailedResult(msg) ==
    [keys |-> FailedKeys, status |-> "failed", error |-> msg,
     parameters |-> <<>>, metrics |-> 0]

CompletedResult(parameters, metric) ==
    [keys |-> CompletedKeys, status |-> "completed", error |-> "",
     parameters |-> parameters, metrics |-> metric]

\* `parameters or {}`: None and the empty dict are both <<>> here.
run_backtest(data, parameters, sim) ==
    LET feed == _prepare_data_feed(data) IN
    IF feed.raised
    THEN FailedResult(feed.msg)
    ELSE IF sim.kind = "raise"
    THEN FailedResult(sim.msg)
    ELSE CompletedResult(parameters, sim.metric)

----------------------------------------------------------------------------
(***************************************************************************)
(* Specification SpecRun: single calls of run_backtest.                    *)
(***************************************************************************)
RunParams == {<<>>, << <<"p", 1>> >>}

NoArgs == [data |-> [has_cols |-> TRUE, index |-> "datetime"], parameters |-> <<>>,
           sim |-> [kind |-> "none", metric |-> 0, msg |-> ""]]

NoResult == [keys |-> {}, status |-> "none", error |-> "", parameters |-> <<>>,
             metrics |-> 0]

RunIdle ==
    /\ run_pc = "idle"
    /\ run_args = NoArgs
    /\ run_result = NoResult

RunInit ==
    /\ run_pc = "idle"
    /\ run_args \in [data : DataFrames, parameters : RunParams, sim : Sims]
    /\ run_result = NoResult

RunBacktest ==
    /\ run_pc = "idle"
    /\ run_args # NoArgs
    /\ run_result' = run_backtest(run_args.data, run_args.parameters, run_args.sim)
    /\ run_pc' = "returned"
    /\ UNCHANGED <<run_args, optVars, keyVars, jobVars, simVars, metVars, wfVars>>

----------------------------------------------------------------------------
(***************************************************************************)
(* BacktestEngine.optimize_parameters.                                     *)
(***************************************************************************)
\* itertools.product(*values): the last list varies fastest.
RECURSIVE product(_)
product(lists) ==
    IF lists = <<>> THEN << <<>> >>
    ELSE LET rest == product(Tail(lists))
             h == Head(lists)
         IN ConcatAll([i \in 1..Len(h) |->
                          [j \in 1..Len(rest) |-> <<h[i]>> \o rest[j]]])

\* dict(zip(keys, combination))
zip(keys, combination) ==
    [i \in 1..Min(Len(keys), Len(combination)) |-> <<keys[i], combination[i]>>]

\* A generator that loses the last combination.
generate_param_combinations_short(grid) ==
    LET keys == SubSeq(GridKeys, 1, Len(grid))
        combos == product(grid)
    IN [c \in 1..(Len(combos) - 1) |-> zip(keys, combos[c])]

\* BacktestEngine._generate_param_combinations
_generate_param_combinations(grid) ==
    LET keys == SubSeq(GridKeys, 1, Len(grid))
        combos == product(grid)
    IN [c \in 1..Len(combos) |-> zip(keys, combos[c])]

\* An element of the results list: the dict future.result() returned, and the
\* ghost field `combo`, the position of its combination in param_combinations.
\* x['metrics'].get(optimization_metric, 0), for a result that has 'metrics'
SortKey(r) == r.result.metrics

\* list.sort(key=..., reverse=True) is stable: results of equal key keep the
\* order they had.  Insert r behind every element whose key is >= r's.
RECURSIVE InsertDesc(_, _)
InsertDesc(s, r) ==
    IF s = <<>> THEN <<r>>
    ELSE IF SortKey(Head(s)) >= SortKey(r)
    THEN <<Head(s)>> \o InsertDesc(Tail(s), r)
    ELSE <<r>> \o s

RECURSIVE SortDesc(_)
SortDesc(s) ==
    IF s = <<>> THEN <<>>
    ELSE InsertDesc(SortDesc(SubSeq(s, 1, Len(s) - 1)), s[Len(s)])

\* What follows the as_completed loop (engine.py 249-282): the raise on an
\* empty results list, the sort (whose key raises KeyError on a dict without
\* 'metrics'), and the returned dict.
NoReturn ==
    [kind |-> "none", error |-> "", status |-> "", best_parameters |-> <<>>,
     best_metric_value |-> 0, all_results |-> <<>>, total_combinations |-> 0]

Raise(error) == [NoReturn EXCEPT !.kind = "raise", !.error = error]

Finish(rs, total) ==
    IF rs = <<>>
    THEN Raise("BacktestError")
    ELSE IF \E i \in DOMAIN rs : "metrics" \notin rs[i].result.keys
    THEN Raise("KeyError")
    ELSE LET sorted == SortDesc(rs) IN
         [kind |-> "return",
          error |-> "",
          status |-> "completed",
          best_parameters |-> sorted[1].result.parameters,
          best_metric_value |-> sorted[1].result.metrics,
          all_results |-> [i \in DOMAIN sorted |->
                              [parameters |-> sorted[i].result.parameters,
                               metrics |-> sorted[i].result.metrics,
                               combo |-> sorted[i].combo]],
          total_combinations |-> total]

ValueLists == UNION {[1..n -> 1..MaxValue] : n \in 0..MaxListLen}

NumCombos(grid) == Len(product(grid))

Grids == {g \in UNION {[1..k -> ValueLists] : k \in 0..Len(GridKeys)} :
             NumCombos(g) <= MaxCombos}

\* The frames the optimizer is run on: a usable one and one without columns.
OptDataFrames == {[has_cols |-> TRUE, index |-> "datetime"],
                  [has_cols |-> FALSE, index |-> "datetime"]}

OptIdle ==
    /\ opt_pc = "idle"
    /\ parameter_grid = <<>>
    /\ opt_data = NoArgs.data
    /\ n_workers = 0
    /\ param_combinations = <<>>
    /\ futures = <<>>
    /\ queued = <<>>
    /\ running = {}
    /\ results = <<>>
    /\ evaluated = <<>>
    /\ opt_return = NoReturn

OptInit ==
    /\ opt_pc = "idle"
    /\ parameter_grid \in Grids
    /\ opt_data \in OptDataFrames
    /\ n_workers \in {Min(cpu, MAX_PARALLEL_BACKTESTS) : cpu \in 1..MaxCpu}
    /\ param_combinations = <<>>
    /\ futures = <<>>
    /\ queued = <<>>
    /\ running = {}
    /\ results = <<>>
    /\ evaluated = <<>>
    /\ opt_return = NoReturn

\* The call up to the as_completed loop: the combinations are generated and
\* one future is submitted per combination; the first n_workers of them start.
OptStart ==
    /\ opt_pc = "idle"
    /\ n_workers > 0
    /\ LET combos == _generate_param_combinations(parameter_grid)
           n == Len(combos)
           started == Min(n, n_workers)
       IN /\ param_combinations' = combos
          /\ futures' = [f \in 1..n |-> f]
          /\ running' = 1..started
          /\ queued' = [k \in 1..(n - started) |-> started + k]
          /\ evaluated' = [c \in 1..n |-> 0]
          /\ IF n = 0
             THEN /\ opt_pc' = "done"
                  /\ opt_return' = Finish(<<>>, 0)
             ELSE /\ opt_pc' = "collecting"
                  /\ opt_return' = NoReturn
    /\ UNCHANGED <<parameter_grid, opt_data, n_workers, results, runVars, keyVars,
                   jobVars, simVars, metVars, wfVars>>

\* One future completes and as_completed yields it: future.result() is the
\* dict run_backtest returned and is appended, or it raises (the worker
\* process died, the result could not be pickled) and is only logged.  The
\* freed worker starts the next queued future.  After the last future the
\* loop ends and the call returns or raises.
Collect(f, out) ==
    /\ opt_pc = "collecting"
    /\ f \in running
    /\ LET rs == IF out.kind = "crash" THEN results
                 ELSE Append(results, [result |-> out.result, combo |-> futures[f]])
           left == (running \ {f}) \cup (IF queued = <<>> THEN {} ELSE {Head(queued)})
       IN /\ results' = rs
          /\ running' = left
          /\ queued' = IF queued = <<>> THEN <<>> ELSE Tail(queued)
          /\ evaluated' = [evaluated EXCEPT ![futures[f]] = @ + 1]
          /\ IF left = {}
             THEN /\ opt_pc' = "done"
                  /\ opt_return' = Finish(rs, Len(param_combinations))
             ELSE /\ opt_pc' = "collecting"
                  /\ opt_return' = NoReturn
    /\ UNCHANGED <<parameter_grid, opt_data, n_workers, param_combinations,
                   futures, runVars, keyVars, jobVars, simVars, metVars, wfVars>>

WorkerOutcomes(f) ==
    {[kind |-> "result",
      result |-> run_backtest(opt_data, param_combinations[futures[f]], sim)] :
        sim \in Sims}
    \cup {[kind |-> "crash"]}

OptCollect == \E f \in running : \E out \in WorkerOutcomes(f) : Collect(f, out)

\* The job is cancelled while the call waits in as_completed: Celery raises
\* SoftTimeLimitExceeded in the task (task_soft_time_limit, also the way a
\* revoked task is interrupted) and the exception leaves the loop.
OptInterrupt ==
    /\ opt_pc = "collecting"
    /\ opt_pc' = "interrupted"
    /\ UNCHANGED <<parameter_grid, opt_data, n_workers, param_combinations, futures,
                   queued, running, results, evaluated, opt_return, runVars, keyVars,
                   jobVars, simVars, metVars, wfVars>>

\* The exception leaves the with block: ProcessPoolExecutor.__exit__ is
\* shutdown(wait=True), which cancels nothing and returns when every
\* submitted future is done.  A running future completes, the freed worker
\* starts the next queued one, nothing is appended to results, and after the
\* last future the exception propagates out of optimize_parameters.
OptShutdown ==
    /\ opt_pc = "interrupted"
    /\ \E f \in running :
          LET left == (running \ {f}) \cup (IF queued = <<>> THEN {} ELSE {Head(queued)})
          IN /\ running' = left
             /\ queued' = IF queued = <<>> THEN <<>> ELSE Tail(queued)
             /\ evaluated' = [evaluated EXCEPT ![futures[f]] = @ + 1]
             /\ IF left = {}
                THEN /\ opt_pc' = "done"
                     /\ opt_return' = Raise("SoftTimeLimitExceeded")
                ELSE /\ opt_pc' = "interrupted"
                     /\ opt_return' = NoReturn
    /\ UNCHANGED <<parameter_grid, opt_data, n_workers, param_combinations, futures,
                   results, runVars, keyVars, jobVars, simVars, metVars, wfVars>>

----------------------------------------------------------------------------
----------------------------------------------------------------------------
(***************************************************************************)
(* BacktestCache.generate_cache_key.                                       *)
(***************************************************************************)
\* The keys a parameter dict may hold, in sorted (lexicographic) order.
SortedKeys == <<"p", "q">>

HasKey(parameters, k) == \E i \in DOMAIN parameters : parameters[i][1] = k

Lookup(parameters, k) ==
    parameters[CHOOSE i \in DOMAIN parameters : parameters[i][1] = k][2]

\* The items of a dict as JSON text: "k": v, joined by ", ".
RECURSIVE JsonItems(_)
JsonItems(items) ==
    IF items = <<>> THEN ""
    ELSE "\"" \o Head(items)[1] \o "\": " \o ToString(Head(items)[2])
         \o (IF Len(items) = 1 THEN "" ELSE ", " \o JsonItems(Tail(items)))

\* json.dumps(parameters), the items in insertion order.
json_dumps_unsorted(parameters) == "{" \o JsonItems(parameters) \o "}"

\* json.dumps(parameters, sort_keys=True)
json_dumps(parameters) ==
    LET keys == SelectSeq(SortedKeys, LAMBDA k : HasKey(parameters, k))
    IN "{" \o JsonItems([i \in DOMAIN keys |-> <<keys[i], Lookup(parameters, keys[i])>>])
           \o "}"

\* hashlib.md5(...).hexdigest(): the digest stands for the text digested (no
\* two texts of the model collide).
md5_hexdigest(data) == "md5(" \o data \o ")"

\* f"{strategy}:{symbol}:{start_date}:{end_date}:{param_str}"
key_data(strategy, symbol, start_date, end_date, parameters) ==
    strategy \o ":" \o symbol \o ":" \o start_date \o ":" \o end_date \o ":"
        \o json_dumps(parameters)

generate_cache_key(strategy, symbol, start_date, end_date, parameters) ==
    "backtest:" \o strategy \o ":" \o symbol \o ":"
        \o md5_hexdigest(key_data(strategy, symbol, start_date, end_date, parameters))

\* datetime.isoformat() and str(pandas.Timestamp) of midnight of day d.
isoformat(d) == "2023-01-0" \o ToString(d) \o "T00:00:00"
str_timestamp(d) == "2023-01-0" \o ToString(d) \o " 00:00:00"

\* Parameter dicts: up to one value per key, in any insertion order.
ParamDicts ==
    {<<>>}
    \cup {<< <<k, v>> >> : k \in Range(SortedKeys), v \in 1..MaxValue}
    \cup {<< <<kk[1], v1>>, <<kk[2], v2>> >> :
            kk \in {x \in Range(SortedKeys) \X Range(SortedKeys) : x[1] # x[2]},
            v1 \in 1..MaxValue, v2 \in 1..MaxValue}

\* Strategy names and symbols, some holding the ':' the key is joined with.
KeyStrategies == {"rsi", "rsi:BTC"}
KeySymbols == {"BTC:USDT", "USDT"}

\* Date ranges: BacktestRequest.validate_dates wants end_date after start_date.
DateRanges == {dd \in (1..MaxDay) \X (1..MaxDay) : dd[1] < dd[2]}

KeyInputs ==
    {[strategy |-> st, symbol |-> sy, start_date |-> isoformat(dd[1]),
      end_date |-> isoformat(dd[2]), parameters |-> ps] :
        st \in KeyStrategies, sy \in KeySymbols, dd \in DateRanges, ps \in ParamDicts}

NoKeyArgs == <<>>

KeyIdle ==
    /\ key_pc = "idle"
    /\ key_args = NoKeyArgs
    /\ key_out = <<>>

KeyInit ==
    /\ key_pc = "idle"
    /\ key_args \in KeyInputs \X KeyInputs
    /\ key_out = <<>>

GenerateKeys ==
    /\ key_pc = "idle"
    /\ key_args # NoKeyArgs
    /\ key_out' = [i \in 1..2 |->
                     generate_cache_key(key_args[i].strategy, key_args[i].symbol,
                                        key_args[i].start_date, key_args[i].end_date,
                                        key_args[i].parameters)]
    /\ key_pc' = "returned"
    /\ UNCHANGED <<key_args, runVars, optVars, jobVars, simVars, metVars, wfVars>>

----------------------------------------------------------------------------
(***************************************************************************)
(* The job handlers: submit_backtest, run_backtest_async,                  *)
(* optimize_strategy, run_optimization_async (api/routes/backtest.py) and  *)
(* the Celery task run_backtest_task (backtesting/tasks.py), with the      *)
(* BacktestRun table and the Redis cache they share.  A handler is cut     *)
(* into steps at its commits and cache calls: what other requests can see. *)
(***************************************************************************)
\* The keys of STRATEGY_MAP, and the values of StrategyType a request may name.
STRATEGY_MAP == {"rsi"}
StrategyTypes == {"rsi", "grid"}

JobSymbol == "BTCUSDT"
JobParams == {<<>>, << <<"p", 1>> >>}
JobRange == <<1, 2>>

\* The fingerprint submit_backtest and run_backtest_async use for a request.
RequestKey(strategy, parameters) ==
    generate_cache_key(strategy, JobSymbol, isoformat(JobRange[1]),
                       isoformat(JobRange[2]), parameters)

\* The fingerprint run_backtest_task writes under: str() of the first and
\* last timestamp of the data.
TaskKey(strategy_name, parameters) ==
    generate_cache_key(strategy_name, JobSymbol, str_timestamp(JobRange[1]),
                       str_timestamp(JobRange[2]), parameters)

HttpKeys == {RequestKey(st, ps) : st \in StrategyTypes, ps \in JobParams}

NoEntry == [key |-> "", status |-> "none", job_id |-> 0]

\* A lookup that finds nothing, whatever is stored.
cache_get_miss(key) == NoEntry

\* RedisCache.get in the API process, whose client the startup has set: the
\* stored value, or None when there is none or Redis does not answer.
cache_get(key) ==
    IF redis_up /\ \E e \in cache : e.key = key
    THEN CHOOSE e \in cache : e.key = key
    ELSE NoEntry

\* RedisCache.set with a client: the store afterwards (unchanged when Redis
\* does not answer and set returns False).
cache_set(key, status, job_id) ==
    IF redis_up
    THEN {e \in cache : e.key # key} \cup {[key |-> key, status |-> status, job_id |-> job_id]}
    ELSE cache

NoResponse == [code |-> 0, status |-> "", ns |-> "", job_id |-> 0, detail |-> ""]

HttpError(code, detail) ==
    [code |-> code, status |-> "", ns |-> "", job_id |-> 0, detail |-> detail]

NewJob(kind, run_id, strategy, parameters, lookup_key) ==
    [kind |-> kind, run_id |-> run_id, strategy |-> strategy, parameters |-> parameters,
     pc |-> "queued", result |-> "none", lookup_key |-> lookup_key, write_key |-> ""]

NewRun == [status |-> "submitted", error_message |-> ""]

JobIdle ==
    /\ jobs = <<>>
    /\ db_runs = <<>>
    /\ cache = {}
    /\ redis_up = TRUE
    /\ worker_client = FALSE
    /\ response = NoResponse
    /\ computed = [k \in HttpKeys |-> 0]

JobInit == JobIdle

\* submit_backtest.  Every exception raised in its try block, the
\* HTTPException(400) and HTTPException(404) included, is caught by its
\* `except Exception` and answered as HTTP 500.
SubmitBacktest(strategy, parameters, data_empty) ==
    LET key == RequestKey(strategy, parameters)
        cached_result == cache_get(key)
    IN IF cached_result # NoEntry
       THEN /\ response' = [code |-> 200, status |-> "completed", ns |-> "engine",
                            job_id |-> cached_result.job_id,
                            detail |-> "Backtest retrieved from cache"]
            /\ UNCHANGED <<jobs, db_runs>>
       ELSE IF strategy \notin STRATEGY_MAP
       THEN /\ response' = HttpError(500, "400: Unknown strategy")
            /\ UNCHANGED <<jobs, db_runs>>
       ELSE IF data_empty
       THEN /\ response' = HttpError(500, "404: No data found for the specified parameters")
            /\ UNCHANGED <<jobs, db_runs>>
       ELSE /\ Len(jobs) < MaxJobs
            /\ db_runs' = Append(db_runs, NewRun)
            /\ jobs' = Append(jobs, NewJob("http", Len(db_runs) + 1, strategy,
                                           parameters, key))
            /\ response' = [code |-> 200, status |-> "submitted", ns |-> "run",
                            job_id |-> Len(db_runs) + 1,
                            detail |-> "Backtest submitted successfully"]

SubmitBacktestStep ==
    /\ \E strategy \in StrategyTypes, parameters \in JobParams, data_empty \in BOOLEAN :
          SubmitBacktest(strategy, parameters, data_empty)
    /\ UNCHANGED <<cache, redis_up, worker_client, computed, runVars, optVars, keyVars,
                   simVars, metVars, wfVars>>

\* run_backtest_async up to its first commit: the status becomes 'running'.
AsyncStart(j) ==
    /\ jobs[j].kind = "http"
    /\ jobs[j].pc = "queued"
    /\ db_runs' = [db_runs EXCEPT ![jobs[j].run_id].status = "running"]
    /\ jobs' = [jobs EXCEPT ![j].pc = "running"]
    /\ UNCHANGED <<cache, redis_up, worker_client, response, computed,
                   runVars, optVars, keyVars,
                   simVars, metVars, wfVars>>

\* run_backtest_async from engine.run_backtest to its second commit.  A
\* failed result has no 'final_capital': result['final_capital'] raises
\* KeyError, and the except clause commits 'failed' with str(e).
AsyncRun(j, sim) ==
    /\ jobs[j].kind = "http"
    /\ jobs[j].pc = "running"
    /\ LET result == run_backtest([has_cols |-> TRUE, index |-> "datetime"],
                                  jobs[j].parameters, sim)
       IN IF "final_capital" \in result.keys
          THEN /\ db_runs' = [db_runs EXCEPT ![jobs[j].run_id].status = "completed"]
               /\ jobs' = [jobs EXCEPT ![j].pc = "saved", ![j].result = result.status]
          ELSE /\ db_runs' = [db_runs EXCEPT ![jobs[j].run_id] =
                                 [status |-> "failed", error_message |-> "'final_capital'"]]
               /\ jobs' = [jobs EXCEPT ![j].pc = "done", ![j].result = result.status]
    /\ computed' = [computed EXCEPT ![jobs[j].lookup_key] = @ + 1]
    /\ UNCHANGED <<cache, redis_up, worker_client, response, runVars, optVars, keyVars,
                   simVars, metVars, wfVars>>

\* run_backtest_async, the cache write that ends it.
AsyncCache(j) ==
    /\ jobs[j].kind = "http"
    /\ jobs[j].pc = "saved"
    /\ LET key == RequestKey(jobs[j].strategy, jobs[j].parameters)
       IN /\ cache' = cache_set(key, jobs[j].result, j)
          /\ jobs' = [jobs EXCEPT ![j].pc = "done",
                                  ![j].write_key = IF redis_up THEN key ELSE ""]
    /\ UNCHANGED <<db_runs, redis_up, worker_client, response, computed,
                   runVars, optVars, keyVars,
                   simVars, metVars, wfVars>>

\* A producer sends run_backtest_task to the Celery queue, for a job id that
\* has a BacktestRun row or has none.
CeleryEnqueue(strategy_name, parameters, with_row) ==
    /\ Len(jobs) < MaxJobs
    /\ db_runs' = IF with_row THEN Append(db_runs, NewRun) ELSE db_runs
    /\ jobs' = Append(jobs, NewJob("celery", IF with_row THEN Len(db_runs) + 1 ELSE 0,
                                   strategy_name, parameters, ""))
    /\ UNCHANGED <<cache, redis_up, worker_client, response, computed,
                   runVars, optVars, keyVars,
                   simVars, metVars, wfVars>>

\* run_backtest_task up to its first commit.
TaskStart(j) ==
    /\ jobs[j].kind = "celery"
    /\ jobs[j].pc = "queued"
    /\ db_runs' = IF jobs[j].run_id # 0
                  THEN [db_runs EXCEPT ![jobs[j].run_id].status = "running"]
                  ELSE db_runs
    /\ jobs' = [jobs EXCEPT ![j].pc = "running"]
    /\ UNCHANGED <<cache, redis_up, worker_client, response, computed,
                   runVars, optVars, keyVars,
                   simVars, metVars, wfVars>>

\* run_backtest_task from engine.run_backtest to its second commit.  With a
\* row, a failed result raises KeyError as in run_backtest_async; without a
\* row the update is skipped and the task goes on to the cache write.
TaskRun(j, sim) ==
    /\ jobs[j].kind = "celery"
    /\ jobs[j].pc = "running"
    /\ LET result == run_backtest([has_cols |-> TRUE, index |-> "datetime"],
                                  jobs[j].parameters, sim)
       IN IF jobs[j].run_id = 0
          THEN /\ db_runs' = db_runs
               /\ jobs' = [jobs EXCEPT ![j].pc = "saved", ![j].result = result.status]
          ELSE IF "final_capital" \in result.keys
          THEN /\ db_runs' = [db_runs EXCEPT ![jobs[j].run_id].status = "completed"]
               /\ jobs' = [jobs EXCEPT ![j].pc = "saved", ![j].result = result.status]
          ELSE /\ db_runs' = [db_runs EXCEPT ![jobs[j].run_id] =
                                 [status |-> "failed", error_message |-> "'final_capital'"]]
               /\ jobs' = [jobs EXCEPT ![j].pc = "done", ![j].result = result.status]
    /\ UNCHANGED <<cache, redis_up, worker_client, response, computed,
                   runVars, optVars, keyVars,
                   simVars, metVars, wfVars>>

\* run_backtest_task, the cache write that ends it.  The worker's first
\* cache call connects: RedisCache.connect sets the client and, when Redis
\* does not answer, raises CacheError, which the task's except clause
\* records as 'failed' on the row.
TaskCache(j) ==
    /\ jobs[j].kind = "celery"
    /\ jobs[j].pc = "saved"
    /\ worker_client' = TRUE
    /\ LET key == TaskKey(jobs[j].strategy, jobs[j].parameters)
       IN IF ~worker_client /\ ~redis_up
          THEN /\ cache' = cache
               /\ db_runs' = IF jobs[j].run_id # 0
                             THEN [db_runs EXCEPT ![jobs[j].run_id] =
                                      [status |-> "failed",
                                       error_message |-> "Redis connection failed"]]
                             ELSE db_runs
               /\ jobs' = [jobs EXCEPT ![j].pc = "done"]
          ELSE /\ cache' = cache_set(key, jobs[j].result, j)
               /\ db_runs' = db_runs
               /\ jobs' = [jobs EXCEPT ![j].pc = "done",
                                       ![j].write_key = IF redis_up THEN key ELSE ""]
    /\ UNCHANGED <<redis_up, response, computed, runVars, optVars, keyVars,
                   simVars, metVars, wfVars>>

\* optimize_strategy: no row is written for an optimization.
OptimizeStrategy(strategy, data_empty) ==
    /\ IF strategy \notin STRATEGY_MAP
       THEN /\ response' = HttpError(500, "400: Unknown strategy")
            /\ jobs' = jobs
       ELSE IF data_empty
       THEN /\ response' = HttpError(500, "404: No data found")
            /\ jobs' = jobs
       ELSE /\ Len(jobs) < MaxJobs
            /\ jobs' = Append(jobs, NewJob("opt", 0, strategy, <<>>, ""))
            /\ response' = [code |-> 200, status |-> "submitted", ns |-> "opt",
                            job_id |-> Len(jobs) + 1,
                            detail |-> "Optimization submitted successfully"]
    /\ UNCHANGED <<db_runs, cache, redis_up, worker_client, computed,
                   runVars, optVars, keyVars,
                   simVars, metVars, wfVars>>

\* run_optimization_async: optimize_parameters returns or raises; either is
\* only logged.
OptimizationAsync(j, outcome) ==
    /\ jobs[j].kind = "opt"
    /\ jobs[j].pc = "queued"
    /\ outcome \in {"returned", "raised"}
    /\ jobs' = [jobs EXCEPT ![j].pc = "done"]
    /\ UNCHANGED <<db_runs, cache, redis_up, worker_client, response, computed,
                   runVars, optVars, keyVars,
                   simVars, metVars, wfVars>>

\* An entry leaves the store: its TTL ran out, or invalidate_symbol deleted it.
CacheExpire(key) ==
    /\ \E e \in cache : e.key = key
    /\ cache' = {e \in cache : e.key # key}
    /\ computed' = [k \in HttpKeys |-> IF k = key THEN 0 ELSE computed[k]]
    /\ UNCHANGED <<jobs, db_runs, redis_up, worker_client, response,
                   runVars, optVars, keyVars,
                   simVars, metVars, wfVars>>

\* Redis stops or starts answering.
RedisFlip ==
    /\ redis_up' = ~redis_up
    /\ UNCHANGED <<jobs, db_runs, cache, worker_client, response, computed,
                   runVars, optVars, keyVars,
                   simVars, metVars, wfVars>>

\* What a simulation does inside a job.
JobSims == {[kind |-> "ok", metric |-> 0, msg |-> ""],
            [kind |-> "raise", metric |-> 0, msg |-> "division by zero"]}

NextJobs ==
    \/ SubmitBacktestStep
    \/ \E j \in DOMAIN jobs : AsyncStart(j)
    \/ \E j \in DOMAIN jobs, sim \in JobSims : AsyncRun(j, sim)
    \/ \E j \in DOMAIN jobs : AsyncCache(j)
    \/ \E with_row \in BOOLEAN : CeleryEnqueue("rsi", <<>>, with_row)
    \/ \E j \in DOMAIN jobs : TaskStart(j)
    \/ \E j \in DOMAIN jobs, sim \in JobSims : TaskRun(j, sim)
    \/ \E j \in DOMAIN jobs : TaskCache(j)
    \/ \E strategy \in StrategyTypes, data_empty \in BOOLEAN :
          OptimizeStrategy(strategy, data_empty)
    \/ \E j \in DOMAIN jobs, outcome \in {"returned", "raised"} :
          OptimizationAsync(j, outcome)
    \/ \E e \in cache : CacheExpire(e.key)
    \/ RedisFlip

----------------------------------------------------------------------------
(***************************************************************************)
(* PerformanceMetrics (backtesting/metrics.py).  A float is kept as an     *)
(* exact fraction num/den in lowest terms; float('inf') and None are       *)
(* values of their own.  A metric that takes a root (cagr, volatility and  *)
(* the ratios built on them) is kept as its sign only: 0, "positive" or    *)
(* "negative".                                                             *)
(***************************************************************************)
TRADING_DAYS_PER_YEAR == 252

RECURSIVE GCD(_, _)
GCD(a, b) == IF b = 0 THEN a ELSE GCD(b, a % b)

\* The float n/d, d > 0.
Num(n, d) ==
    LET g == GCD(Abs(n), d)
    IN [kind |-> "float", num |-> n \div g, den |-> d \div g]

Zero == Num(0, 1)
Inf == [kind |-> "inf", num |-> 1, den |-> 0]
None == [kind |-> "None", num |-> 0, den |-> 0]
Positive == [kind |-> "positive", num |-> 1, den |-> 0]
Negative == [kind |-> "negative", num |-> -1, den |-> 0]

SignOf(n) == IF n > 0 THEN Positive ELSE IF n < 0 THEN Negative ELSE Zero

RAdd(a, b) == Num(a.num * b.den + b.num * a.den, a.den * b.den)
RSub(a, b) == Num(a.num * b.den - b.num * a.den, a.den * b.den)
RMul(a, b) == Num(a.num * b.num, a.den * b.den)
RDiv(a, b) == IF b.num > 0 THEN Num(a.num * b.den, a.den * b.num)
              ELSE Num(-(a.num * b.den), a.den * (-b.num))
RLess(a, b) == a.num * b.den < b.num * a.den

RISK_FREE_RATE == Num(2, 100)

RECURSIVE Sum(_)
Sum(xs) == IF xs = <<>> THEN 0 ELSE Head(xs) + Sum(Tail(xs))

RECURSIVE RSum(_)
RSum(xs) == IF xs = <<>> THEN Zero ELSE RAdd(Head(xs), RSum(Tail(xs)))

\* np.mean of a non-empty array.
RMean(xs) == RDiv(RSum(xs), Num(Len(xs), 1))

\* t.get('pnl', 0)
get_pnl(t) == IF "pnl" \in t.keys THEN t.pnl ELSE 0

\* [t.get('pnl', 0) for t in trades]
Pnls(trades) == [i \in DOMAIN trades |-> get_pnl(trades[i])]

IsWin(x) == x > 0
IsLoss(x) == x < 0

\* PerformanceMetrics.win_rate
win_rate(trades) ==
    IF Len(trades) = 0 THEN Zero
    ELSE Num(Len(SelectSeq(Pnls(trades), IsWin)) * 100, Len(trades))

\* A profit factor that divides the losses by the profits.
profit_factor_inverted(trades) ==
    LET gross_profit == Sum(SelectSeq(Pnls(trades), IsWin))
        gross_loss == Abs(Sum(SelectSeq(Pnls(trades), IsLoss)))
    IN IF Len(trades) = 0 THEN Zero
       ELSE IF gross_profit = 0 THEN (IF gross_loss > 0 THEN Inf ELSE Zero)
       ELSE Num(gross_loss, gross_profit)

\* PerformanceMetrics.profit_factor
profit_factor(trades) ==
    LET gross_profit == Sum(SelectSeq(Pnls(trades), IsWin))
        gross_loss == Abs(Sum(SelectSeq(Pnls(trades), IsLoss)))
    IN IF Len(trades) = 0 THEN Zero
       ELSE IF gross_loss = 0 THEN (IF gross_profit > 0 THEN Inf ELSE Zero)
       ELSE Num(gross_profit, gross_loss)

\* PerformanceMetrics.avg_win
avg_win(trades) ==
    LET winning_trades == SelectSeq(Pnls(trades), IsWin)
    IN IF Len(winning_trades) = 0 THEN Zero
       ELSE Num(Sum(winning_trades), Len(winning_trades))

\* PerformanceMetrics.avg_loss
avg_loss(trades) ==
    LET losing_trades == SelectSeq(Pnls(trades), IsLoss)
    IN IF Len(losing_trades) = 0 THEN Zero
       ELSE Num(Sum(losing_trades), Len(losing_trades))

\* PerformanceMetrics.avg_trade
avg_trade(trades) ==
    IF Len(trades) = 0 THEN Zero ELSE Num(Sum(Pnls(trades)), Len(trades))

\* np.diff(portfolio_values) / portfolio_values[:-1]
Returns(pv) == [i \in 1..(Len(pv) - 1) |-> Num(pv[i + 1] - pv[i], pv[i])]

AllEqual(xs) == \A i, j \in DOMAIN xs : xs[i] = xs[j]

RECURSIVE RInsert(_, _)
RInsert(sorted, x) ==
    IF sorted = <<>> THEN <<x>>
    ELSE IF RLess(x, Head(sorted)) THEN <<x>> \o sorted
    ELSE <<Head(sorted)>> \o RInsert(Tail(sorted), x)

RECURSIVE RSort(_)
RSort(xs) == IF xs = <<>> THEN <<>> ELSE RInsert(RSort(Tail(xs)), Head(xs))

\* np.percentile(xs, q) of a non-empty array: linear interpolation between
\* the two nearest ranks.
percentile(xs, q) ==
    LET sorted == RSort(xs)
        pos == (Len(xs) - 1) * q
        k == pos \div 100
        lower == sorted[k + 1]
    IN IF k + 2 > Len(xs) THEN lower
       ELSE RAdd(lower, RMul(Num(pos % 100, 100), RSub(sorted[k + 2], lower)))

\* A total return measured from the last value back to the first.
total_return_reversed(pv) ==
    IF Len(pv) < 2 THEN Zero ELSE Num((pv[1] - pv[Len(pv)]) * 100, pv[Len(pv)])

\* PerformanceMetrics.total_return
total_return(pv) ==
    IF Len(pv) < 2 THEN Zero ELSE Num((pv[Len(pv)] - pv[1]) * 100, pv[1])

\* PerformanceMetrics.annualized_return
annualized_return(returns) ==
    IF Len(returns) = 0 THEN Zero
    ELSE RMul(RMean(returns), Num(TRADING_DAYS_PER_YEAR * 100, 1))

\* PerformanceMetrics.cagr: (total ** (1 / years) - 1) * 100 with years > 0
\* has the sign of total - 1.
cagr(pv) ==
    IF Len(pv) < 2 THEN Zero ELSE SignOf(pv[Len(pv)] - pv[1])

\* PerformanceMetrics.volatility: np.std is 0 exactly when all returns are equal.
volatility(returns) ==
    IF Len(returns) < 2 THEN Zero
    ELSE IF AllEqual(returns) THEN Zero ELSE Positive

\* np.maximum.accumulate(portfolio_values)[i]
RECURSIVE running_max(_, _)
running_max(pv, i) ==
    IF i = 1 THEN pv[1]
    ELSE LET m == running_max(pv, i - 1) IN IF pv[i] > m THEN pv[i] ELSE m

\* PerformanceMetrics.max_drawdown
max_drawdown(pv) ==
    IF Len(pv) < 2 THEN Zero
    ELSE LET drawdown == [i \in DOMAIN pv |->
                             Num(pv[i] - running_max(pv, i), running_max(pv, i))]
         IN RMul(RSort(drawdown)[1], Num(100, 1))

\* PerformanceMetrics.value_at_risk(returns, confidence=0.95)
value_at_risk(returns) ==
    IF Len(returns) = 0 THEN Zero
    ELSE RMul(percentile(returns, 5), Num(100, 1))

\* PerformanceMetrics.conditional_var(returns, confidence=0.95)
conditional_var(returns) ==
    IF Len(returns) = 0 THEN Zero
    ELSE LET var == percentile(returns, 5)
             InTail(r) == ~RLess(var, r)
         IN RMul(RMean(SelectSeq(returns, InTail)), Num(100, 1))

daily_rf == RDiv(RISK_FREE_RATE, Num(TRADING_DAYS_PER_YEAR, 1))

\* A Sharpe ratio without the test for a zero standard deviation: the
\* division by 0.0 gives an infinity with the sign of the excess return.
sharpe_ratio_no_zero_check(returns) ==
    IF Len(returns) < 2 THEN Zero
    ELSE SignOf(RSub(RMean(returns), daily_rf).num)

\* PerformanceMetrics.sharpe_ratio
sharpe_ratio(returns) ==
    IF Len(returns) < 2 THEN Zero
    ELSE IF AllEqual(returns) THEN Zero
    ELSE SignOf(RSub(RMean(returns), daily_rf).num)

\* PerformanceMetrics.sortino_ratio
sortino_ratio(returns) ==
    LET Downside(r) == RLess(r, daily_rf)
        downside_returns == SelectSeq(returns, Downside)
    IN IF Len(returns) < 2 THEN Zero
       ELSE IF Len(downside_returns) = 0 THEN Zero
       ELSE IF AllEqual(downside_returns) THEN Zero
       ELSE SignOf(RSub(RMean(returns), daily_rf).num)

\* PerformanceMetrics.calmar_ratio
calmar_ratio(pv) ==
    IF max_drawdown(pv) = Zero THEN Zero ELSE cagr(pv)

\* PerformanceMetrics.beta: np.cov(...)[0, 1] divides by n - 1, np.var by n.
beta(returns, benchmark_returns) ==
    IF Len(returns) # Len(benchmark_returns) \/ Len(returns) < 2 THEN Zero
    ELSE LET n == Len(returns)
             mr == RMean(returns)
             mb == RMean(benchmark_returns)
             covariance ==
                 RDiv(RSum([i \in 1..n |-> RMul(RSub(returns[i], mr),
                                                RSub(benchmark_returns[i], mb))]),
                      Num(n - 1, 1))
             benchmark_variance ==
                 RDiv(RSum([i \in 1..n |-> RMul(RSub(benchmark_returns[i], mb),
                                                RSub(benchmark_returns[i], mb))]),
                      Num(n, 1))
         IN IF benchmark_variance = Zero THEN Zero
            ELSE RDiv(covariance, benchmark_variance)

\* PerformanceMetrics.alpha
alpha(returns, benchmark_returns) ==
    IF Len(returns) # Len(benchmark_returns) \/ Len(returns) < 2 THEN Zero
    ELSE RMul(RSub(RMean(returns),
                   RMul(beta(returns, benchmark_returns), RMean(benchmark_returns))),
              Num(TRADING_DAYS_PER_YEAR * 100, 1))

\* PerformanceMetrics._empty_metrics
_empty_metrics ==
    [total_return |-> Zero, annual_return |-> Zero, cagr |-> Zero,
     volatility |-> Zero, max_drawdown |-> Zero, var_95 |-> Zero, cvar_95 |-> Zero,
     sharpe_ratio |-> Zero, sortino_ratio |-> Zero, calmar_ratio |-> Zero,
     total_trades |-> 0, win_rate |-> Zero, profit_factor |-> Zero,
     avg_win |-> Zero, avg_loss |-> Zero, avg_trade |-> Zero,
     alpha |-> None, beta |-> None]

\* The metrics dict calculate_all builds from at least two portfolio values.
\* benchmark_returns is [given |-> FALSE, ...] for None.
all_metrics(portfolio_values, trades, benchmark_returns) ==
    LET returns == Returns(portfolio_values)
        compared == /\ benchmark_returns.given
                    /\ Len(benchmark_returns.values) = Len(returns)
    IN [total_return |-> total_return(portfolio_values),
        annual_return |-> annualized_return(returns),
        cagr |-> cagr(portfolio_values),
        volatility |-> volatility(returns),
        max_drawdown |-> max_drawdown(portfolio_values),
        var_95 |-> value_at_risk(returns),
        cvar_95 |-> conditional_var(returns),
        sharpe_ratio |-> sharpe_ratio(returns),
        sortino_ratio |-> sortino_ratio(returns),
        calmar_ratio |-> calmar_ratio(portfolio_values),
        total_trades |-> Len(trades),
        win_rate |-> win_rate(trades),
        profit_factor |-> profit_factor(trades),
        avg_win |-> avg_win(trades),
        avg_loss |-> avg_loss(trades),
        avg_trade |-> avg_trade(trades),
        alpha |-> IF compared THEN alpha(returns, benchmark_returns.values) ELSE None,
        beta |-> IF compared THEN beta(returns, benchmark_returns.values) ELSE None]

\* A calculate_all without the guard on the number of portfolio values.
calculate_all_unguarded(portfolio_values, trades, initial_capital, benchmark_returns) ==
    all_metrics(portfolio_values, trades, benchmark_returns)

\* PerformanceMetrics.calculate_all
calculate_all(portfolio_values, trades, initial_capital, benchmark_returns) ==
    IF Len(portfolio_values) < 2 THEN _empty_metrics
    ELSE all_metrics(portfolio_values, trades, benchmark_returns)

NoBenchmark == [given |-> FALSE, values |-> <<>>]

\* The arguments of one calculate_all call.
EquityValues == {1, 2}
PnlValues == {-20, 5, 10}
BenchmarkValues == {Num(0, 1), Num(1, 1)}

Seqs(S, n) == UNION {[1..k -> S] : k \in 0..n}

\* Trade dicts as the docstring of calculate_all describes them, with a
\* 'pnl' key, and as BaseStrategy.notify_trade records them, without one.
TradeDicts ==
    {[keys |-> {"pnl", "commission"}, date |-> 0, profit |-> 0, pnl |-> v] : v \in PnlValues}
    \cup {[keys |-> {"date", "profit", "profit_net", "commission"},
           date |-> 0, profit |-> 1, pnl |-> 0]}

Benchmarks ==
    {NoBenchmark} \cup {[given |-> TRUE, values |-> v] : v \in Seqs(BenchmarkValues, MaxPoints - 1)}

MetArgs ==
    [portfolio_values : Seqs(EquityValues, MaxPoints), trades : Seqs(TradeDicts, MaxTrades),
     initial_capital : {1}, benchmark_returns : Benchmarks]

NoMetArgs ==
    [portfolio_values |-> <<>>, trades |-> <<>>, initial_capital |-> 0,
     benchmark_returns |-> NoBenchmark]

NoMetrics == [_empty_metrics EXCEPT !.total_trades = -1]

MetIdle ==
    /\ met_pc = "idle"
    /\ met_args = NoMetArgs
    /\ met_out = NoMetrics

MetInit ==
    /\ met_pc = "idle"
    /\ met_args \in MetArgs
    /\ met_out = NoMetrics

\* One call of PerformanceMetrics.calculate_all.
CalculateAll ==
    /\ met_pc = "idle"
    /\ met_args # NoMetArgs
    /\ met_out' = calculate_all(met_args.portfolio_values, met_args.trades,
                                met_args.initial_capital, met_args.benchmark_returns)
    /\ met_pc' = "returned"
    /\ UNCHANGED <<met_args, runVars, optVars, keyVars, jobVars, simVars, wfVars>>

NextMetrics == CalculateAll

----------------------------------------------------------------------------
(***************************************************************************)
(* A simulation: BaseStrategy and its variants (strategies/base.py) as     *)
(* cerebro.run drives them from BacktestEngine.run_backtest.  The broker   *)
(* is backtrader's default one: a market order submitted while bar i is    *)
(* processed is executed at bar i+1, and its notifications reach the       *)
(* strategy before next() is called for bar i+1.  Open and close of a bar  *)
(* are one price; the commission is 0.                                     *)
(***************************************************************************)
Runs == {1, 2}
StrategyClasses == {"LongOnlyStrategy", "LongShortStrategy"}
Prices == {1, 2}
TimeSteps == {0, 1}
Capitals == {1, 2}
position_size == 1

\* What generate_signals returns for a bar.
SignalDicts == {[buy |-> FALSE, sell |-> FALSE], [buy |-> TRUE, sell |-> FALSE],
                [buy |-> FALSE, sell |-> TRUE]}

\* The keys of the dict notify_trade records.
TradeRecordKeys == {"date", "profit", "profit_net", "commission"}

NoSimResult ==
    [status |-> "none", final_capital |-> 0, trades |-> <<>>, metrics |-> NoMetrics,
     equity_curve |-> <<>>]

NoInstance ==
    [pc |-> "idle", strategy_class |-> "", warmup |-> 0, initial_capital |-> 0,
     bar |-> 0, cash |-> 0, size |-> 0, trade_cash |-> 0, order |-> 0,
     open_orders |-> <<>>, next_ref |-> 1, trades_list |-> <<>>,
     portfolio_values |-> <<>>, dates |-> <<>>, entries |-> 0, flat_sells |-> 0,
     result |-> NoSimResult]

\* BaseStrategy.__init__ on a fresh cerebro with its cash set.
NewInstance(strategy_class, warmup, initial_capital) ==
    [NoInstance EXCEPT !.pc = "running", !.strategy_class = strategy_class,
                       !.warmup = warmup, !.initial_capital = initial_capital,
                       !.cash = initial_capital]

\* BaseStrategy.notify_order: a status other than Submitted and Accepted
\* resets self.order, whichever order the notification is about.
notify_order(st, status) ==
    IF status \in {"Submitted", "Accepted"} THEN st ELSE [st EXCEPT !.order = 0]

\* BaseStrategy.notify_trade for a trade that has closed.
notify_trade(st, bar, pnl) ==
    [st EXCEPT !.trades_list =
        Append(@, [keys |-> TradeRecordKeys, date |-> bar.ts, profit |-> pnl, pnl |-> 0])]

\* self.buy / self.sell / self.close: the order goes to the broker; `tracked`
\* says whether the caller assigns it to self.order.
Submit(st, qty, tracked) ==
    [st EXCEPT !.open_orders = Append(@, [ref |-> st.next_ref, qty |-> qty]),
               !.next_ref = @ + 1,
               !.order = IF tracked THEN st.next_ref ELSE @]

\* BaseStrategy.execute_buy
execute_buy(st) ==
    IF position_size > 0 THEN Submit(st, position_size, TRUE) ELSE st

\* execute_sell of the instance's class.  LongOnlyStrategy closes through
\* BaseStrategy.execute_sell, which keeps the order in self.order;
\* LongShortStrategy closes a long position without keeping the order, and
\* otherwise sells short.
execute_sell(st) ==
    IF st.strategy_class = "LongOnlyStrategy"
    THEN IF st.size # 0 THEN Submit(st, -st.size, TRUE) ELSE st
    ELSE IF st.size > 0 THEN Submit(st, -st.size, FALSE)
    ELSE IF position_size > 0 THEN Submit(st, -position_size, TRUE) ELSE st

\* BaseStrategy.next for one bar.  (entries and flat_sells are ghosts: the
\* entry fills so far, and the sell signals generated while flat.)
next(st, bar, signals) ==
    LET st1 == [st EXCEPT !.portfolio_values = Append(@, st.cash + st.size * bar.price),
                          !.dates = Append(@, bar.ts)]
    IN IF st1.order # 0 THEN st1
       ELSE IF signals.buy /\ st1.size = 0 THEN execute_buy(st1)
       ELSE IF signals.sell /\ st1.size # 0 THEN execute_sell(st1)
       ELSE IF signals.sell THEN [st1 EXCEPT !.flat_sells = @ + 1]
       ELSE st1

\* The broker executes one order at the bar's price, or refuses a buy the
\* cash does not cover (Margin), and notifies the strategy.  A fill that
\* brings the position to 0 closes the trade; what is left of it opens one.
Execute(st, o, bar) ==
    LET q == o.qty
        p == bar.price
        closing == IF st.size * q < 0 THEN Min(Abs(q), Abs(st.size)) ELSE 0
        opening == Abs(q) - closing
        size1 == st.size + Sign(q) * closing
        cash1 == st.trade_cash - Sign(q) * closing * p
        closed == closing > 0 /\ size1 = 0
        st1 == [st EXCEPT !.cash = @ - q * p,
                          !.size = size1 + Sign(q) * opening,
                          !.trade_cash = (IF closed THEN 0 ELSE cash1) - Sign(q) * opening * p,
                          !.entries = IF opening > 0 /\ size1 = 0 THEN @ + 1 ELSE @]
        st2 == notify_order(st1, "Completed")
    IN IF q > 0 /\ st.cash < q * p
       THEN notify_order(st, "Margin")
       ELSE IF closed THEN notify_trade(st2, bar, cash1) ELSE st2

\* broker.next for a bar: every order it holds is executed, oldest first.
RECURSIVE ExecuteAll(_, _, _)
ExecuteAll(st, orders, bar) ==
    IF orders = <<>> THEN st
    ELSE ExecuteAll(Execute(st, Head(orders), bar), Tail(orders), bar)

\* One bar of cerebro.run for an instance: the broker first, then prenext
\* (which BaseStrategy leaves empty) while the indicators lack their minimum
\* period, next afterwards.
RunBar(st, bar) ==
    LET st1 == ExecuteAll([st EXCEPT !.open_orders = <<>>], st.open_orders, bar)
        st2 == [st1 EXCEPT !.bar = @ + 1]
    IN IF st2.bar > st.warmup THEN next(st2, bar, bar.signals) ELSE st2

\* PerformanceMetrics.calculate_equity_curve
calculate_equity_curve(portfolio_values, dates) ==
    [i \in 1..Min(Len(dates), Len(portfolio_values)) |->
        [date |-> dates[i], value |-> portfolio_values[i]]]

\* A result whose trades come from one list all instances append to.
RunEnd_shared_trades(st) ==
    [st EXCEPT !.pc = "stopped",
               !.result = [status |-> "completed",
                           final_capital |-> st.cash + st.size *
                               (IF data_bars = <<>> THEN 0 ELSE data_bars[Len(data_bars)].price),
                           trades |-> instances[1].trades_list \o instances[2].trades_list,
                           metrics |-> calculate_all(st.portfolio_values, st.trades_list,
                                                     st.initial_capital, NoBenchmark),
                           equity_curve |-> calculate_equity_curve(st.portfolio_values,
                                                                   st.dates)]]

\* run_backtest after cerebro.run has returned: strategy.stop only logs.
RunEnd(st) ==
    [st EXCEPT !.pc = "stopped",
               !.result = [status |-> "completed",
                           final_capital |-> st.cash + st.size *
                               (IF data_bars = <<>> THEN 0 ELSE data_bars[Len(data_bars)].price),
                           trades |-> st.trades_list,
                           metrics |-> calculate_all(st.portfolio_values, st.trades_list,
                                                     st.initial_capital, NoBenchmark),
                           equity_curve |-> calculate_equity_curve(st.portfolio_values,
                                                                   st.dates)]]

\* The bars that can follow a series.
NextBars(bars, steps) ==
    [ts : {(IF bars = <<>> THEN 0 ELSE bars[Len(bars)].ts) + d : d \in steps},
     price : Prices, signals : SignalDicts]

SimIdle ==
    /\ data_bars = <<>>
    /\ instances = [r \in Runs |-> NoInstance]

\* One run_backtest call.
SimInit ==
    /\ data_bars = <<>>
    /\ \E c \in StrategyClasses, w \in 0..MaxWarmup, k \in Capitals :
          instances = [r \in Runs |-> IF r = 1 THEN NewInstance(c, w, k) ELSE NoInstance]

\* cerebro.run processes the next bar for run r; a bar no run has read yet
\* is drawn first.
SimBar(r, steps) ==
    /\ instances[r].pc = "running"
    /\ \E bar \in (IF instances[r].bar < Len(data_bars)
                   THEN {data_bars[instances[r].bar + 1]}
                   ELSE NextBars(data_bars, steps)) :
          /\ instances[r].bar < Len(data_bars)
                \/ (/\ Len(data_bars) < MaxBars
                    /\ \A q \in Runs : instances[q].pc # "stopped")
          /\ data_bars' = IF instances[r].bar < Len(data_bars) THEN data_bars
                          ELSE Append(data_bars, bar)
          /\ instances' = [instances EXCEPT ![r] = RunBar(@, bar)]
    /\ UNCHANGED <<runVars, optVars, keyVars, jobVars, metVars, wfVars>>

\* The series is exhausted for run r: cerebro.run returns and run_backtest
\* builds its result.
SimStop(r) ==
    /\ instances[r].pc = "running"
    /\ instances[r].bar = Len(data_bars)
    /\ instances' = [instances EXCEPT ![r] = RunEnd(@)]
    /\ UNCHANGED <<data_bars, runVars, optVars, keyVars, jobVars, metVars, wfVars>>

NextSim == \/ SimBar(1, TimeSteps)
           \/ SimStop(1)

\* Two run_backtest calls with the same arguments, one after the other or
\* interleaved (the API runs them as background tasks, the optimizer in
\* separate worker processes).
TwinInit ==
    /\ data_bars = <<>>
    /\ \E c \in StrategyClasses, w \in 0..MaxWarmup, k \in Capitals :
          instances = [r \in Runs |-> NewInstance(c, w, k)]

NextTwin == \/ \E r \in Runs : SimBar(r, {1})
            \/ \E r \in Runs : SimStop(r)

(***************************************************************************)
(* The strategy classes under any broker: backtrader calls next() once per *)
(* bar and notify_order() whenever the broker reports on an order, and a   *)
(* broker may leave an order Accepted over any number of bars.             *)
(***************************************************************************)
OrderStatuses == {"Accepted", "Completed", "Canceled", "Margin", "Rejected"}

\* The broker reports on the oldest order it holds: it is still Accepted, it
\* is executed at some price, or it is dropped.
BrokerNotify(r, status, price) ==
    /\ instances[r].pc = "running"
    /\ instances[r].open_orders # <<>>
    /\ LET st == instances[r]
           bar == [ts |-> st.bar, price |-> price, signals |-> [buy |-> FALSE, sell |-> FALSE]]
           rest == [st EXCEPT !.open_orders = Tail(@)]
       IN instances' = [instances EXCEPT ![r] =
             IF status = "Accepted" THEN notify_order(st, status)
             ELSE IF status = "Completed" THEN Execute(rest, Head(st.open_orders), bar)
             ELSE notify_order(rest, status)]
    /\ UNCHANGED <<data_bars, runVars, optVars, keyVars, jobVars, metVars, wfVars>>

\* backtrader calls next() for a new bar.
StrategyNext(r, price, signals) ==
    /\ instances[r].pc = "running"
    /\ instances[r].bar < MaxBars
    /\ LET st == [instances[r] EXCEPT !.bar = @ + 1]
           bar == [ts |-> st.bar, price |-> price, signals |-> signals]
       IN instances' = [instances EXCEPT ![r] = next(st, bar, signals)]
    /\ UNCHANGED <<data_bars, runVars, optVars, keyVars, jobVars, metVars, wfVars>>

NextStrategy ==
    \/ \E status \in OrderStatuses, price \in Prices : BrokerNotify(1, status, price)
    \/ \E price \in Prices, signals \in SignalDicts : StrategyNext(1, price, signals)

----------------------------------------------------------------------------
(***************************************************************************)
(* BacktestEngine.walk_forward_analysis and _create_windows.  The data     *)
(* frame is its row positions 0 .. len(data) - 1.                          *)
(***************************************************************************)
\* data.iloc[start:stop] for 0 <= start: the positions from start up to but
\* not including stop, cut at the end of the frame.
iloc(n, start, stop) ==
    [k \in 1..(Min(stop, n) - Min(start, n)) |-> Min(start, n) + k - 1]

\* A window start that skips the whole window.
next_start_after_window(idx, train_period, test_period) ==
    idx + train_period + test_period

\* start_idx += test_period
next_start(idx, train_period, test_period) == idx + test_period

\* The most windows a frame of MaxRows rows has when test_period >= 1, and
\* one more: the loop is followed no further.
MaxWindows == MaxRows + 1

WfArgs == [n : 0..MaxRows, train_period : 0..MaxPeriod, test_period : 0..MaxPeriod]

WfIdle ==
    /\ wf_pc = "idle"
    /\ wf_args = [n |-> 0, train_period |-> 0, test_period |-> 0]
    /\ start_idx = 0
    /\ windows = <<>>
    /\ wf_results = <<>>

\* walk_forward_analysis has called _create_windows: windows = [], start_idx = 0.
WfInit ==
    /\ wf_pc = "windows"
    /\ wf_args \in WfArgs
    /\ start_idx = 0
    /\ windows = <<>>
    /\ wf_results = <<>>

\* One iteration of the while loop of _create_windows.
CreateWindowsLoop ==
    /\ wf_pc = "windows"
    /\ start_idx + (wf_args.train_period + wf_args.test_period) <= wf_args.n
    /\ Len(windows) < MaxWindows
    /\ LET train_end == start_idx + wf_args.train_period
           test_end == train_end + wf_args.test_period
       IN windows' = Append(windows, [train_data |-> iloc(wf_args.n, start_idx, train_end),
                                      test_data |-> iloc(wf_args.n, train_end, test_end)])
    /\ start_idx' = next_start(start_idx, wf_args.train_period, wf_args.test_period)
    /\ UNCHANGED <<wf_pc, wf_args, wf_results, runVars, optVars, keyVars, jobVars,
                   simVars, metVars>>

\* The loop condition fails and _create_windows returns the list.
CreateWindowsReturn ==
    /\ wf_pc = "windows"
    /\ ~(start_idx + (wf_args.train_period + wf_args.test_period) <= wf_args.n)
    /\ wf_pc' = "backtests"
    /\ UNCHANGED <<wf_args, start_idx, windows, wf_results, runVars, optVars, keyVars,
                   jobVars, simVars, metVars>>

\* walk_forward_analysis runs the next window's test data.
WalkForwardRun(sim) ==
    /\ wf_pc = "backtests"
    /\ Len(wf_results) < Len(windows)
    /\ wf_results' = Append(wf_results,
                            run_backtest([has_cols |-> TRUE, index |-> "datetime"],
                                         <<>>, sim).status)
    /\ UNCHANGED <<wf_pc, wf_args, start_idx, windows, runVars, optVars, keyVars,
                   jobVars, simVars, metVars>>

\* walk_forward_analysis returns after the last window.
WalkForwardReturn ==
    /\ wf_pc = "backtests"
    /\ Len(wf_results) = Len(windows)
    /\ wf_pc' = "returned"
    /\ UNCHANGED <<wf_args, start_idx, windows, wf_results, runVars, optVars, keyVars,
                   jobVars, simVars, metVars>>

NextWalkForward ==
    \/ CreateWindowsLoop
    \/ CreateWindowsReturn
    \/ \E sim \in JobSims : WalkForwardRun(sim)
    \/ WalkForwardReturn

----------------------------------------------------------------------------
(***************************************************************************)
(* Specifications.                                                         *)
(***************************************************************************)
InitRun == RunInit /\ OptIdle /\ KeyIdle /\ JobIdle /\ SimIdle /\ MetIdle /\ WfIdle
NextRun == RunBacktest
SpecRun == InitRun /\ [][NextRun]_vars

InitOpt == OptInit /\ RunIdle /\ KeyIdle /\ JobIdle /\ SimIdle /\ MetIdle /\ WfIdle
NextOpt == OptStart \/ OptCollect
SpecOpt == InitOpt /\ [][NextOpt]_vars

InitWalkForward ==
    WfInit /\ RunIdle /\ OptIdle /\ KeyIdle /\ JobIdle /\ SimIdle /\ MetIdle
SpecWalkForward == InitWalkForward /\ [][NextWalkForward]_vars

NextCancel == OptStart \/ OptCollect \/ OptInterrupt \/ OptShutdown
SpecCancel == InitOpt /\ [][NextCancel]_vars

InitKey == KeyInit /\ RunIdle /\ OptIdle /\ JobIdle /\ SimIdle /\ MetIdle /\ WfIdle
NextKey == GenerateKeys
SpecKey == InitKey /\ [][NextKey]_vars

InitSim == SimInit /\ RunIdle /\ OptIdle /\ KeyIdle /\ JobIdle /\ MetIdle /\ WfIdle
SpecSim == InitSim /\ [][NextSim]_vars

InitTwin == TwinInit /\ RunIdle /\ OptIdle /\ KeyIdle /\ JobIdle /\ MetIdle /\ WfIdle
SpecTwin == InitTwin /\ [][NextTwin]_vars

InitMetrics == MetInit /\ RunIdle /\ OptIdle /\ KeyIdle /\ JobIdle /\ SimIdle /\ WfIdle
SpecMetrics == InitMetrics /\ [][NextMetrics]_vars

SpecStrategy == InitSim /\ [][NextStrategy]_vars

InitJobs == JobInit /\ RunIdle /\ OptIdle /\ KeyIdle /\ SimIdle /\ MetIdle /\ WfIdle
SpecJobs == InitJobs /\ [][NextJobs]_vars

----------------------------------------------------------------------------
(***************************************************************************)
(* Properties of optimize_parameters (under SpecOpt) and run_backtest     *)
(* (under SpecRun).                                                        *)
(***************************************************************************)
Succeeded == {i \in DOMAIN results : results[i].result.status = "completed"}
FailedRuns == {i \in DOMAIN results : results[i].result.status = "failed"}

RankedCombos == {opt_return.all_results[i].combo : i \in DOMAIN opt_return.all_results}

\* C1: when some combinations succeed and others return a failed result, the
\* call returns status 'completed', ranks exactly the successful combinations,
\* and counts the failed ones in total_combinations only.
C1_PartialFailureStillCompletes ==
    (opt_pc = "done" /\ Succeeded # {} /\ FailedRuns # {}) =>
        /\ opt_return.kind = "return"
        /\ opt_return.status = "completed"
        /\ RankedCombos = {results[i].combo : i \in Succeeded}
        /\ Len(opt_return.all_results) = Cardinality(Succeeded)
        /\ Len(opt_return.all_results) < opt_return.total_combinations

\* C2: the call raises BacktestError exactly when no combination succeeded,
\* and raises nothing else.
C2_BacktestErrorIffNoSuccess ==
    opt_pc = "done" =>
        /\ (opt_return.kind = "raise") <=> (Succeeded = {})
        /\ (opt_return.kind = "raise") => (opt_return.error = "BacktestError")

\* C3: run_backtest returns 'completed' for a simulation that succeeds and
\* 'failed' with a non-empty error message for one that fails.
C3_FailedRunCarriesMessage ==
    run_pc = "returned" =>
        \/ /\ run_result.status = "completed"
           /\ ~_prepare_data_feed(run_args.data).raised
           /\ run_args.sim.kind = "ok"
        \/ /\ run_result.status = "failed"
           /\ "error" \in run_result.keys
           /\ run_result.error # ""

\* C4: the ranked list is in descending order of the metric, results of equal
\* metric in enumeration order, and best_parameters is its first entry: the
\* ranking is the same for every completion order.
C4_RankedByMetricThenEnumeration ==
    (opt_pc = "done" /\ opt_return.kind = "return") =>
        LET all == opt_return.all_results IN
        /\ \A i, j \in DOMAIN all :
              i < j => \/ all[i].metrics > all[j].metrics
                       \/ /\ all[i].metrics = all[j].metrics
                          /\ all[i].combo < all[j].combo
        /\ opt_return.best_parameters = param_combinations[all[1].combo]

RECURSIVE SizesProduct(_)
SizesProduct(grid) ==
    IF grid = <<>> THEN 1 ELSE Len(Head(grid)) * SizesProduct(Tail(grid))

PairwiseDistinct(s) == \A i, j \in DOMAIN s : i # j => s[i] # s[j]

\* One future per generated combination, none skipped and none submitted
\* twice; no combination run twice, and each run once when the call ends.
OneRunEach ==
    /\ Len(futures) = Len(param_combinations)
    /\ \A c \in DOMAIN param_combinations :
          Cardinality({f \in DOMAIN futures : futures[f] = c}) = 1
    /\ \A c \in DOMAIN evaluated : evaluated[c] <= 1
    /\ opt_pc = "done" => \A c \in DOMAIN evaluated : evaluated[c] = 1

\* C5 as stated: n1 x ... x nk pairwise-distinct combinations, one run each.
C5_DistinctCombinationsRunOnce ==
    opt_pc # "idle" =>
        /\ Len(param_combinations) = SizesProduct(parameter_grid)
        /\ PairwiseDistinct(param_combinations)
        /\ OneRunEach

\* C5 as amended: n1 x ... x nk combinations, one per tuple of list positions
\* in lexicographic order, one run each; they are pairwise distinct when no
\* value list repeats a value.
C5_OneRunPerCombination ==
    opt_pc # "idle" =>
        /\ Len(param_combinations) = SizesProduct(parameter_grid)
        /\ (\A d \in DOMAIN parameter_grid : PairwiseDistinct(parameter_grid[d]))
              => PairwiseDistinct(param_combinations)
        /\ OneRunEach

C5_Witness ==
    /\ opt_pc = "done"
    /\ Len(parameter_grid) = 2
    /\ Len(param_combinations) = 4
    /\ PairwiseDistinct(param_combinations)
    /\ \A c \in DOMAIN evaluated : evaluated[c] = 1

----------------------------------------------------------------------------
(***************************************************************************)
(* Properties of generate_cache_key (under SpecKey).                      *)
(***************************************************************************)
\* Two parameter dicts equal as mappings: the same items, in any order.
SameMapping(p1, p2) == Range(p1) = Range(p2)

SameButOrder(a, b) ==
    /\ a.strategy = b.strategy
    /\ a.symbol = b.symbol
    /\ a.start_date = b.start_date
    /\ a.end_date = b.end_date
    /\ SameMapping(a.parameters, b.parameters)

\* C8: two calls whose arguments are equal, the parameter dicts equal as
\* mappings but possibly built in different key orders, return the same key.
C8_KeyIgnoresInsertionOrder ==
    (key_pc = "returned" /\ SameButOrder(key_args[1], key_args[2]))
        => key_out[1] = key_out[2]

C8_Witness ==
    /\ key_pc = "returned"
    /\ SameButOrder(key_args[1], key_args[2])
    /\ Len(key_args[1].parameters) = 2
    /\ key_args[1].parameters # key_args[2].parameters
    /\ key_out[1] = key_out[2]

KeyDataOf(a) == key_data(a.strategy, a.symbol, a.start_date, a.end_date, a.parameters)

\* C9: two calls that differ in the strategy, the symbol, a date or a
\* parameter value have different pre-hash key data and different keys.
C9_KeyDistinguishesInputs ==
    (key_pc = "returned" /\ ~SameButOrder(key_args[1], key_args[2]))
        => /\ KeyDataOf(key_args[1]) # KeyDataOf(key_args[2])
           /\ key_out[1] # key_out[2]

Ended(j) == jobs[j].pc \in {"saved", "done"}

\* C6: a result is computed only for a request whose cache lookup missed, and
\* every result written to the cache, by run_backtest_async or by
\* run_backtest_task, is stored under the fingerprint that request is looked
\* up with.
C6_WrittenUnderLookupFingerprint ==
    \A j \in DOMAIN jobs :
        (jobs[j].kind \in {"http", "celery"} /\ Ended(j)) =>
            /\ jobs[j].lookup_key = RequestKey(jobs[j].strategy, jobs[j].parameters)
            /\ jobs[j].write_key \in {"", jobs[j].lookup_key}

Readable(key) == redis_up /\ \E e \in cache : e.key = key

Recorded(j) ==
    /\ jobs[j].run_id # 0
    /\ db_runs[jobs[j].run_id].status \in {"completed", "failed"}
    /\ db_runs[jobs[j].run_id].status = "failed"
          => db_runs[jobs[j].run_id].error_message # ""

\* C10: once the background work of a job has ended, be it a backtest from
\* submit_backtest, a Celery task or an optimization, a terminal status
\* 'completed' or 'failed' is recorded for it, 'failed' with a non-empty
\* error message.
C10_EndedJobsRecordedTerminal ==
    \A j \in DOMAIN jobs : jobs[j].pc = "done" => Recorded(j)

InvalidGrid(grid) == Len(grid) = 0 \/ \E i \in DOMAIN grid : grid[i] = <<>>

\* C11: an optimization whose parameter grid is empty or holds an empty value
\* list is rejected with an error before any simulation run is dispatched.
C11_InvalidGridRejectedBeforeDispatch ==
    (InvalidGrid(parameter_grid) /\ opt_pc # "idle") =>
        /\ futures = <<>>
        /\ opt_pc = "done"
        /\ opt_return.kind = "raise"

Stopped(r) == instances[r].pc = "stopped"

\* C12: after a completed run no position is open, and every entry fill has
\* its Trade in the list handed to the metrics calculator (a position open
\* at the final bar has been closed at that bar's close).
C12_NoOpenPositionAfterRun ==
    \A r \in Runs : Stopped(r) =>
        /\ instances[r].size = 0
        /\ Len(instances[r].result.trades) = instances[r].entries

\* C13: after a completed run the equity series has exactly one point per bar
\* of the input series, in bar order, the warm-up bars included.
C13_OneEquityPointPerBar ==
    \A r \in Runs : Stopped(r) =>
        /\ Len(instances[r].result.equity_curve) = Len(data_bars)
        /\ \A i \in DOMAIN instances[r].result.equity_curve :
              instances[r].result.equity_curve[i].date = data_bars[i].ts

C15_ShortSignalRaisesStrategyError ==
    \A r \in Runs : instances[r].strategy_class = "LongOnlyStrategy" =>
        /\ instances[r].size >= 0
        /\ (Stopped(r) /\ instances[r].flat_sells > 0) =>
               instances[r].result.status = "failed"

StrictlyIncreasing(bars) ==
    \A i \in DOMAIN bars : i > 1 => bars[i - 1].ts < bars[i].ts

\* C16: a run on a series whose timestamps are not strictly increasing ends
\* in a failed result, never in a completed one.
C16_UnorderedSeriesFails ==
    \A r \in Runs : (Stopped(r) /\ ~StrictlyIncreasing(data_bars)) =>
        instances[r].result.status = "failed"

ProfitableTrades(trades) == {i \in 1..Len(trades) : trades[i].profit > 0}

\* C18: in every completed run_backtest result win_rate is 100 times the
\* number of recorded trades with a positive realised P&L over the number of
\* recorded trades, so a result with a profitable recorded trade reports
\* win_rate > 0 and a non-zero avg_trade and avg_win.
C18_WinRateFromRecordedTrades ==
    \A r \in Runs :
        (Stopped(r) /\ instances[r].result.status = "completed"
                    /\ Len(instances[r].result.trades) > 0) =>
            LET res == instances[r].result IN
            /\ res.metrics.win_rate =
                   Num(100 * Cardinality(ProfitableTrades(res.trades)), Len(res.trades))
            /\ ProfitableTrades(res.trades) # {} =>
                   /\ RLess(Zero, res.metrics.win_rate)
                   /\ res.metrics.avg_trade # Zero
                   /\ res.metrics.avg_win # Zero

(***************************************************************************)
(* Properties of PerformanceMetrics (under SpecMetrics).                   *)
(***************************************************************************)
RECURSIVE GrossProfit(_)
GrossProfit(trades) ==
    IF trades = <<>> THEN 0
    ELSE (IF Head(trades).pnl > 0 THEN Head(trades).pnl ELSE 0) + GrossProfit(Tail(trades))

RECURSIVE GrossLoss(_)
GrossLoss(trades) ==
    IF trades = <<>> THEN 0
    ELSE (IF Head(trades).pnl < 0 THEN -Head(trades).pnl ELSE 0) + GrossLoss(Tail(trades))

AllHavePnl(trades) == \A i \in DOMAIN trades : "pnl" \in trades[i].keys

Computed == met_pc = "returned" /\ Len(met_args.portfolio_values) >= 2

ExampleTrades ==
    [i \in 1..3 |-> [keys |-> {"pnl", "commission"}, date |-> 0, profit |-> 0,
                     pnl |-> <<10, 5, -20>>[i]]]

\* C19: profit_factor is gross_profit / gross_loss when gross_loss > 0 (3/4
\* for the P&Ls 10, 5, -20), infinity when gross_loss = 0 < gross_profit and
\* 0 otherwise; for the empty trade list win_rate, profit_factor, avg_win,
\* avg_loss and avg_trade are 0.
C19_ProfitFactorAndEmptyTradeList ==
    (Computed /\ AllHavePnl(met_args.trades)) =>
        LET gp == GrossProfit(met_args.trades)
            gl == GrossLoss(met_args.trades)
            pf == met_out.profit_factor
        IN /\ gl > 0 => (pf.kind = "float" /\ pf.num * gl = pf.den * gp)
           /\ (gl = 0 /\ gp > 0) => pf = Inf
           /\ (gl = 0 /\ gp = 0) => pf = Zero
           /\ met_args.trades = ExampleTrades => (pf.num = 3 /\ pf.den = 4)
           /\ met_args.trades = <<>> =>
                 /\ met_out.win_rate = Zero
                 /\ met_out.profit_factor = Zero
                 /\ met_out.avg_win = Zero
                 /\ met_out.avg_loss = Zero
                 /\ met_out.avg_trade = Zero

C19_Witness ==
    /\ Computed
    /\ met_args.trades = ExampleTrades
    /\ met_out.profit_factor = Num(3, 4)
    /\ met_out.total_trades = 3

NumericMetrics ==
    {"total_return", "annual_return", "cagr", "volatility", "max_drawdown", "var_95",
     "cvar_95", "sharpe_ratio", "sortino_ratio", "calmar_ratio", "win_rate",
     "profit_factor", "avg_win", "avg_loss", "avg_trade"}

\* C20: with fewer than 2 portfolio values calculate_all returns the empty
\* metrics record, every numeric metric 0 and alpha and beta None, whatever
\* the trade list and the benchmark.
C20_FewValuesGiveEmptyMetrics ==
    (met_pc = "returned" /\ Len(met_args.portfolio_values) < 2) =>
        /\ \A m \in NumericMetrics : met_out[m] = [kind |-> "float", num |-> 0, den |-> 1]
        /\ met_out.total_trades = 0
        /\ met_out.alpha.kind = "None"
        /\ met_out.beta.kind = "None"

C20_Witness ==
    /\ met_pc = "returned"
    /\ Len(met_args.portfolio_values) = 1
    /\ Len(met_args.trades) = MaxTrades
    /\ met_args.benchmark_returns.given
    /\ Len(met_args.benchmark_returns.values) = 0
    /\ met_out.total_trades = 0
    /\ met_out.alpha.kind = "None"

\* C21: for every equity series of at least 2 values that are all equal,
\* calculate_all reports max_drawdown = 0, volatility = 0 and
\* sharpe_ratio = 0.
C21_ConstantEquityGivesZeroRisk ==
    (Computed /\ AllEqual(met_args.portfolio_values)) =>
        /\ met_out.max_drawdown = [kind |-> "float", num |-> 0, den |-> 1]
        /\ met_out.volatility = [kind |-> "float", num |-> 0, den |-> 1]
        /\ met_out.sharpe_ratio = [kind |-> "float", num |-> 0, den |-> 1]

C21_Witness ==
    /\ met_pc = "returned"
    /\ met_args.portfolio_values = <<2, 2, 2>>
    /\ met_out.sharpe_ratio.kind = "float"
    /\ met_out.sharpe_ratio.num = 0
    /\ met_out.max_drawdown.num = 0

\* C22: for every equity curve of at least 2 values the sign of total_return
\* is the sign of the last value minus the first.
C22_TotalReturnSign ==
    Computed =>
        LET pv == met_args.portfolio_values IN
        /\ met_out.total_return.kind = "float"
        /\ met_out.total_return.den > 0
        /\ Sign(met_out.total_return.num) = Sign(pv[Len(pv)] - pv[1])

C22_Witness ==
    /\ met_pc = "returned"
    /\ met_args.portfolio_values = <<2, 2, 1>>
    /\ met_out.total_return.num < 0

\* The sum of the products of the deviations of two series from their means.
CoMoment(xs, ys) ==
    RSum([i \in 1..Len(xs) |-> RMul(RSub(xs[i], RMean(xs)), RSub(ys[i], RMean(ys)))])

\* C23: with at least 2 portfolio values calculate_all reports alpha and beta
\* as None exactly when no benchmark series of the length of the return
\* series is supplied; when one is supplied both are computed values, so a
\* beta of 0 comes from a zero covariance or variance and an alpha of 0 from
\* mean(returns) = beta * mean(benchmark), never from a value left uncomputed.
C23_AlphaBetaAbsentOrComputed ==
    Computed =>
        LET returns == Returns(met_args.portfolio_values)
            bench == met_args.benchmark_returns
            supplied == bench.given /\ Len(bench.values) = Len(returns)
        IN /\ (met_out.alpha.kind = "None") <=> ~supplied
           /\ (met_out.beta.kind = "None") <=> ~supplied
           /\ supplied =>
                 /\ met_out.beta.num = 0 =>
                       \/ CoMoment(bench.values, bench.values).num = 0
                       \/ CoMoment(returns, bench.values).num = 0
                 /\ met_out.alpha.num = 0 =>
                       RMean(returns) = RMul(met_out.beta, RMean(bench.values))

(***************************************************************************)
(* Properties of a cancelled optimize_parameters call (under SpecCancel).  *)
(***************************************************************************)
\* C24: once an optimization job is cancelled no combination that has not
\* started starts running, and the combinations already completed are kept
\* for ranking: the call still returns a ranking when it has results.
C24_CancellationStopsDispatch ==
    [][opt_pc = "interrupted" =>
          /\ running' \subseteq running
          /\ (opt_pc' = "done" /\ results # <<>>) => opt_return'.kind = "return"]_vars

(***************************************************************************)
(* Properties of the job handlers (under SpecJobs), continued.             *)
(***************************************************************************)
\* C25: when the requested strategy has no entry in STRATEGY_MAP,
\* submit_backtest answers HTTP 400, creates no BacktestRun record and
\* starts no simulation.
C25_UnknownStrategyAnswers400 ==
    [][\A strategy \in StrategyTypes \ STRATEGY_MAP :
          \A parameters \in JobParams, data_empty \in BOOLEAN :
              (SubmitBacktest(strategy, parameters, data_empty)
                  /\ cache_get(RequestKey(strategy, parameters)) = NoEntry) =>
                  /\ response'.code = 400
                  /\ db_runs' = db_runs
                  /\ jobs' = jobs]_vars

\* The committed statuses a status may be followed by.
Forward(status) ==
    CASE status = "submitted" -> {"submitted", "running", "completed", "failed"}
      [] status = "running" -> {"running", "completed", "failed"}
      [] OTHER -> {status}

\* C28: the committed status of a backtest job only moves forward along
\* submitted, running, then completed or failed, and a terminal status is
\* stable: a job committed as completed is never changed to failed.
C28_StatusMovesForward ==
    [][\A r \in DOMAIN db_runs : db_runs'[r].status \in Forward(db_runs[r].status)]_vars

\* C29: only successful results enter the cache: every stored result has
\* status 'completed', on the HTTP background path and on the Celery task
\* path, with or without a BacktestRun record.
C29_OnlyCompletedResultsCached ==
    \A e \in cache : e.status = "completed"

\* The run ids the BacktestRun table holds.
RunIds == DOMAIN db_runs

\* C30: every job_id submit_backtest returns, for a new job or from the
\* cache, identifies an existing BacktestRun record.
C30_ReturnedJobIdHasRecord ==
    (response.code = 200 /\ response.ns \in {"run", "engine"}) =>
        /\ response.ns = "run"
        /\ response.job_id \in RunIds

(***************************************************************************)
(* Properties of walk_forward_analysis (under SpecWalkForward).            *)
(***************************************************************************)
WindowsReturned == wf_pc \in {"backtests", "returned"}

\* C26: for train_period >= 0 and test_period >= 1 every window returned by
\* _create_windows has a train slice of train_period rows immediately
\* followed by a test slice of test_period rows, the test slices of
\* consecutive windows are contiguous and pairwise disjoint, and there are 0
\* windows if N < train_period + test_period and
\* floor((N - train_period) / test_period) otherwise.
C26_WindowsShapeAndCount ==
    (WindowsReturned /\ wf_args.test_period >= 1) =>
        LET n == wf_args.n
            train_period == wf_args.train_period
            test_period == wf_args.test_period
        IN /\ \A i \in DOMAIN windows :
                 /\ Len(windows[i].train_data) = train_period
                 /\ Len(windows[i].test_data) = test_period
                 /\ train_period >= 1 =>
                       windows[i].test_data[1] = windows[i].train_data[train_period] + 1
                 /\ windows[i].test_data[test_period] <= n - 1
           /\ \A i \in DOMAIN windows :
                 i < Len(windows) =>
                    windows[i + 1].test_data[1] = windows[i].test_data[test_period] + 1
           /\ \A i, j \in DOMAIN windows :
                 i # j => Range(windows[i].test_data) \cap Range(windows[j].test_data) = {}
           /\ Len(windows) = IF n < train_period + test_period THEN 0
                             ELSE (n - train_period) \div test_period

C26_Witness ==
    /\ wf_pc = "returned"
    /\ wf_args.train_period >= 1
    /\ wf_args.test_period >= 1
    /\ Len(windows) = 3
    /\ windows[2].train_data[1] = windows[1].test_data[1]
    /\ Len(wf_results) = 3

\* C27: walk_forward_analysis terminates for every data length and every
\* non-negative train_period and test_period: every iteration of the
\* window-creation loop advances its start index.
C27_WindowLoopAdvances ==
    [][(wf_pc = "windows" /\ windows' # windows) => start_idx' > start_idx]_vars

====
